---- MODULE Spec2Model ----
(***************************************************************************)
(* Model of iceoryx2/src/node/mod.rs: the Node subsystem.                  *)
(*                                                                         *)
(* Processes create Nodes (details artifact, then monitoring token), drop  *)
(* them, crash, enumerate the monitoring directory with Node::list and     *)
(* reclaim dead Nodes with DeadNodeView::remove_stale_resources.  The      *)
(* Monitoring and StaticStorage backends live in iceoryx2-cal; they are    *)
(* modelled by their contracts.  A second state machine models the         *)
(* per-Node RegisteredServices table with its mutex.                       *)
(***************************************************************************)
EXTENDS Integers, Sequences, FiniteSets, TLC

\* ------------------------------------------------------------------ bounds
NumProcs == 3          \* processes on the host (their pids are 1..NumProcs)
NumBuilders == 2       \* processes among them that create Nodes
MaxNodes == 2          \* NodeIds minted on the host in one run
MaxCrashes == 2        \* processes that die without teardown in one run
MaxRsrCalls == 2       \* completed remove_stale_resources calls per NodeId
IdBase == 10           \* UniqueSystemId value = pid * IdBase + counter

Procs == 1..NumProcs
Builders == 1..NumBuilders
NodeNames == {"", "a"}                 \* NodeName; "" is the builder's default
ArtifactNames == {"node", "service"}   \* files of a per-Node details directory
GlobalConfig == "cfg"                  \* Config::get_global_config()

None == <<>>
Some(x) == <<x>>

\* ------------------------------------------------------- NodeId, FileName
\* UniqueSystemId: value() and pid()
UniqueSystemId(p, counter) == p * IdBase + counter
pid(id) == id \div IdBase
NodeIds == {UniqueSystemId(p, c) : p \in Procs, c \in 1..MaxNodes}

Digit(d) == CASE d = 0 -> "0" [] d = 1 -> "1" [] d = 2 -> "2" [] d = 3 -> "3"
              [] d = 4 -> "4" [] d = 5 -> "5" [] d = 6 -> "6" [] d = 7 -> "7"
              [] d = 8 -> "8" [] d = 9 -> "9"
DigitValue(c) == CHOOSE d \in 0..9 : Digit(d) = c

RECURSIVE to_string(_)
to_string(v) == IF v < 10 THEN <<Digit(v)>>
                ELSE Append(to_string(v \div 10), Digit(v % 10))

RECURSIVE parse_u128(_)
parse_u128(s) == IF Len(s) = 0 THEN 0
                 ELSE 10 * parse_u128(SubSeq(s, 1, Len(s) - 1)) + DigitValue(s[Len(s)])

\* NodeId::as_file_name: the decimal string of the id's value
as_file_name(id) == to_string(id)
FileNames == {as_file_name(id) : id \in NodeIds}

\* ----------------------------------------------------------- NodeDetails
NodeDetails(name, config) == [name |-> name, config |-> config]
\* ConfigSerializer: the artifact holds the fields in order
serialize(d) == <<d.name, d.config>>
deserialize(bytes) == IF Len(bytes) = 2
                      THEN Some(NodeDetails(bytes[1], bytes[2]))
                      ELSE None

\* ---------------------------------------------------------------- state
VARIABLES
  alive,        \* [Procs -> BOOLEAN]: the process runs
  minted,       \* [Procs -> Nat]: ids minted by the process (UniqueSystemId counter)
  monitoring,   \* [FileNames -> {"absent","held","abandoned"}]: monitoring directory
  cleaner,      \* [FileNames -> 0..NumProcs]: pid holding the cleaner, 0 if free
  detailsDir,   \* [NodeIds -> BOOLEAN]: the per-Node details directory exists
  storages,     \* [NodeIds -> [present artifact names -> content]]
  node,         \* [NodeIds -> SharedNode record of the owning process]
  pc,           \* [Procs -> control point]
  cur,          \* [Procs -> NodeId in work, 0 if none]
  todo,         \* [Procs -> SUBSET FileNames]: node_list still to visit in list
  pending,      \* [Procs -> SUBSET ArtifactNames]: detail_storages still to remove
  origin,       \* [Procs -> "drop" | "rsr"]: who called remove_node
  result,       \* [Procs -> result the call in progress will return]
  views,        \* [Procs -> set of DeadNodeViews kept by the list callback]
  crashes,      \* processes crashed so far
  run,          \* record of the one list run under observation (history)
  began,        \* [Procs -> what had returned when the call in progress began]
  rsrLog,       \* [NodeIds -> Seq of the remove_stale_resources calls that returned]
  rsData,       \* RegisteredServices.data: [uuid -> <<>> | <<[handle, count]>>]
  rsLock,       \* holder of the data mutex, 0 if free
  rsPc,         \* [Threads -> control point]
  rsArg,        \* [Threads -> [uuid, handle] of the call in progress]
  rsFatal,      \* a fatal_panic! of RegisteredServices was hit
  rsHist,       \* history of completed RegisteredServices calls
  termination,  \* SignalHandler::termination_requested()
  waitPc,       \* where the thread that calls Node::wait is
  sleep,        \* the nanosleep in progress: interrupted by a signal; history:
                \* termination was pending when wait was called
  signals,      \* signals delivered so far
  waitLog       \* the wait calls that returned (history)

nodeVars == <<alive, minted, monitoring, cleaner, detailsDir, storages, node, pc,
              cur, todo, pending, origin, result, views, crashes, run, began,
              rsrLog>>
rsVars == <<rsData, rsLock, rsPc, rsArg, rsFatal, rsHist>>
waitVars == <<termination, waitPc, sleep, signals, waitLog>>
vars == <<nodeVars, rsVars, waitVars>>

\* ------------------------------------------------------------ helpers
RECURSIVE SumUpTo(_, _)
SumUpTo(f, n) == IF n = 0 THEN 0 ELSE f[n] + SumUpTo(f, n - 1)
TotalMinted == SumUpTo(minted, NumProcs)

Without(f, a) == [x \in DOMAIN f \ {a} |-> f[x]]
NoStorages == [x \in {} |-> <<>>]

\* A Node: the SharedNode of its owner (token slot, name given to the builder),
\* where it is in its life (none, unbuilt, building, alive, staged, teardown,
\* dropped, crashed, failed), and as history the state it crashed in ("staged" after
\* staged_death, the error after a failed create) and whether a cleaner was
\* ever acquired
NoNode == [state |-> "none", token |-> FALSE, name |-> "", diedIn |-> "",
           reaped |-> FALSE]

\* A returned remove_stale_resources call: its result, whether it held the
\* cleaner, and as taken when it began: the number of calls on the NodeId that
\* had returned and whether one of them had held the cleaner
NoBegan == [after |-> 0, afterHeld |-> FALSE]
Began(n) == [after |-> Len(rsrLog[n]),
             afterHeld |-> \E i \in 1..Len(rsrLog[n]) : rsrLog[n][i].held]
Returned(res, held, b) == [res |-> res, held |-> held, after |-> b.after,
                           afterHeld |-> b.afterHeld]

\* The record of a list run.  Any one run at a time is observed: who runs it (by,
\* 0 if no run is observed), the callbacks made so far, whether the loop was left,
\* whether the callback said Stop, the NodeIds that were created, torn down,
\* cleaned or orphaned by a crash since the run began, the names list_all_nodes
\* gave, what get_node_details and get_node_state returned for each NodeId
\* reached, the NodeIds NodeState::new gave None for, the NodeId an error came
\* from, and what list returned
NoRun == [by |-> 0, done |-> FALSE, stopped |-> FALSE, reports |-> <<>>,
          touched |-> {}, listed |-> {}, queries |-> {}, skipped |-> {}, failed |-> 0,
          result |-> "none"]

\* Nodes whose handle exists and is not being dropped
AliveNodes == {n \in NodeIds : node[n].state = "alive"}
\* Nodes whose owner died without teardown and whose monitoring entry is still there
DeadNodes == {n \in NodeIds : node[n].state = "crashed"
                              /\ monitoring[as_file_name(n)] = "abandoned"}
DroppedNodes == {n \in NodeIds : node[n].state = "dropped"}
CleanedNodes == {n \in NodeIds :
                   \E i \in 1..Len(rsrLog[n]) : rsrLog[n][i].res = "Ok(true)"}

\* A step that changes the Nodes in ns is noted in the observed run
Touched(ns) == IF run.by # 0 THEN [run EXCEPT !.touched = @ \cup ns] ELSE run

\* --------------------------------------------------- Monitoring (contract)
\* Monitor::state()
monitor_state(f) == CASE monitoring[f] = "absent" -> "DoesNotExist"
                      [] monitoring[f] = "held" -> "Alive"
                      [] monitoring[f] = "abandoned" -> "Dead"

\* Builder::cleaner()
cleaner_outcome(f) == CASE monitoring[f] = "absent" -> "DoesNotExist"
                        [] monitoring[f] = "held" -> "InstanceStillAlive"
                        [] cleaner[f] # 0 -> "AlreadyOwnedByAnotherInstance"
                        [] OTHER -> "Ok"

\* NamedConceptMgmt::list_cfg of the monitoring directory
list_cfg_monitoring == {f \in FileNames : monitoring[f] # "absent"}

\* -------------------------------------------------------------- Init
NodeInit ==
  /\ alive = [p \in Procs |-> TRUE]
  /\ minted = [p \in Procs |-> 0]
  /\ monitoring = [f \in FileNames |-> "absent"]
  /\ cleaner = [f \in FileNames |-> 0]
  /\ detailsDir = [n \in NodeIds |-> FALSE]
  /\ storages = [n \in NodeIds |-> NoStorages]
  /\ node = [n \in NodeIds |-> NoNode]
  /\ pc = [p \in Procs |-> "idle"]
  /\ cur = [p \in Procs |-> 0]
  /\ todo = [p \in Procs |-> {}]
  /\ pending = [p \in Procs |-> {}]
  /\ origin = [p \in Procs |-> "none"]
  /\ result = [p \in Procs |-> "none"]
  /\ views = [p \in Procs |-> {}]
  /\ crashes = 0
  /\ run = NoRun
  /\ began = [p \in Procs |-> NoBegan]
  /\ rsrLog = [n \in NodeIds |-> <<>>]

\* ------------------------------------------------- NodeBuilder::create
\* Seeded fault: the details are built with the default name
new_details_DefaultName(name) == NodeDetails("", GlobalConfig)

\* NodeDetails::new(&self.name, config) as create_node_details_storage stores it
new_details(name) == NodeDetails(name, GlobalConfig)

\* create, first half: mint the id, then create_node_details_storage
create_node_details_storage(p, name) ==
  /\ alive[p] /\ pc[p] = "idle"
  /\ TotalMinted < MaxNodes
  /\ LET id == UniqueSystemId(p, minted[p] + 1)
         details == new_details(name)
     IN /\ "node" \notin DOMAIN storages[id]
        /\ minted' = [minted EXCEPT ![p] = @ + 1]
        /\ detailsDir' = [detailsDir EXCEPT ![id] = TRUE]
        /\ storages' = [storages EXCEPT ![id] = [a \in {"node"} |-> serialize(details)]]
        /\ node' = [node EXCEPT ![id] = [NoNode EXCEPT !.state = "building",
                                                        !.name = name]]
        /\ cur' = [cur EXCEPT ![p] = id]
        /\ pc' = [pc EXCEPT ![p] = "create_token"]
        /\ run' = Touched({id})
  /\ UNCHANGED <<rsVars, waitVars, alive, monitoring, cleaner, todo, pending, origin,
                 result, views, crashes, began, rsrLog>>

\* Seeded fault: create goes on to the token though the details were not created
create_node_details_storage_fails_GoesOn(p) ==
  /\ alive[p] /\ pc[p] = "idle"
  /\ TotalMinted < MaxNodes
  /\ \E e \in {"InsufficientPermissions", "InternalError"} :
       LET id == UniqueSystemId(p, minted[p] + 1)
       IN /\ minted' = [minted EXCEPT ![p] = @ + 1]
          /\ node' = [node EXCEPT ![id] = [NoNode EXCEPT !.state = "building",
                                                          !.diedIn = e]]
          /\ cur' = [cur EXCEPT ![p] = id]
          /\ pc' = [pc EXCEPT ![p] = "create_token"]
          /\ run' = Touched({id})
  /\ UNCHANGED <<rsVars, waitVars, alive, monitoring, cleaner, detailsDir, storages,
                 todo, pending, origin, result, views, crashes, began, rsrLog>>

\* create, first half failing: the id is minted, then serialize or the creation
\* of the storage fails and `?` returns the error; nothing was created
create_node_details_storage_fails(p) ==
  /\ alive[p] /\ pc[p] = "idle"
  /\ TotalMinted < MaxNodes
  /\ \E e \in {"InsufficientPermissions", "InternalError"} :
       LET id == UniqueSystemId(p, minted[p] + 1)
       IN /\ minted' = [minted EXCEPT ![p] = @ + 1]
          /\ node' = [node EXCEPT ![id] = [NoNode EXCEPT !.state = "unbuilt",
                                                          !.diedIn = e]]
          /\ run' = Touched({id})
  /\ UNCHANGED <<rsVars, waitVars, alive, monitoring, cleaner, detailsDir, storages,
                 pc, cur, todo, pending, origin, result, views, crashes, began, rsrLog>>

\* create, second half: create_token, then the Node is returned with token = Some
create_token(p) ==
  /\ alive[p] /\ pc[p] = "create_token"
  /\ LET f == as_file_name(cur[p])
     IN /\ monitoring[f] = "absent"
        /\ monitoring' = [monitoring EXCEPT ![f] = "held"]
        /\ node' = [node EXCEPT ![cur[p]].state = "alive", ![cur[p]].token = TRUE]
  /\ cur' = [cur EXCEPT ![p] = 0]
  /\ pc' = [pc EXCEPT ![p] = "idle"]
  /\ run' = Touched({cur[p]})
  /\ UNCHANGED <<rsVars, waitVars, alive, minted, cleaner, detailsDir, storages, todo,
                 pending, origin, result, views, crashes, began, rsrLog>>

\* create, second half, failing: token() returns InsufficientPermissions or
\* InternalError and create returns the error; the details storage, created
\* with has_ownership(false), stays as it is when its handle goes out of scope
create_token_fails(p) ==
  /\ alive[p] /\ pc[p] = "create_token"
  /\ \E e \in {"InsufficientPermissions", "InternalError"} :
       node' = [node EXCEPT ![cur[p]].state = "failed", ![cur[p]].diedIn = e]
  /\ cur' = [cur EXCEPT ![p] = 0]
  /\ pc' = [pc EXCEPT ![p] = "idle"]
  /\ run' = Touched({cur[p]})
  /\ UNCHANGED <<rsVars, waitVars, alive, minted, monitoring, cleaner, detailsDir,
                 storages, todo, pending, origin, result, views, crashes, began, rsrLog>>

\* A service created through the Node adds a sibling artifact to its directory
create_service(p, n) ==
  /\ alive[p] /\ pc[p] = "idle"
  /\ pid(n) = p /\ node[n].state = "alive"
  /\ "service" \notin DOMAIN storages[n]
  /\ storages' = [storages EXCEPT
                    ![n] = [a \in DOMAIN @ \cup {"service"} |->
                              IF a = "service" THEN <<>> ELSE @[a]]]
  /\ UNCHANGED <<rsVars, waitVars, alive, minted, monitoring, cleaner, detailsDir, node, pc, cur,
                 todo, pending, origin, result, views, crashes, run,
                 began, rsrLog>>

\* ------------------------------------------------------ SharedNode::drop
\* Node::staged_death: the token is taken out of the slot and, as the tests
\* that stage a death do, abandoned: the monitor reports the Node as dead
staged_death(p, n) ==
  /\ alive[p] /\ pc[p] = "idle"
  /\ pid(n) = p /\ node[n].state = "alive" /\ node[n].token
  /\ node' = [node EXCEPT ![n].state = "staged", ![n].token = FALSE,
                          ![n].diedIn = "staged"]
  /\ monitoring' = [monitoring EXCEPT ![as_file_name(n)] = "abandoned"]
  /\ run' = Touched({n})
  /\ UNCHANGED <<rsVars, waitVars, alive, minted, cleaner, detailsDir, storages, pc, cur,
                 todo, pending, origin, result, views, crashes, began, rsrLog>>

\* Seeded fault: remove_node is called whatever the token slot holds
drop_Unconditional(p, n) ==
  /\ alive[p] /\ pc[p] = "idle"
  /\ pid(n) = p /\ node[n].state \in {"alive", "staged"}
  /\ node' = [node EXCEPT ![n].state = "teardown"]
  /\ pc' = [pc EXCEPT ![p] = "rm_list"]
  /\ cur' = [cur EXCEPT ![p] = n]
  /\ origin' = [origin EXCEPT ![p] = "drop"]
  /\ run' = Touched({n})
  /\ UNCHANGED <<rsVars, waitVars, alive, minted, monitoring, cleaner, detailsDir,
                 storages, todo, pending, result, views, crashes, began, rsrLog>>

\* Drop of the last handle: remove_node if the token slot is Some
drop(p, n) ==
  /\ alive[p] /\ pc[p] = "idle"
  /\ pid(n) = p /\ node[n].state \in {"alive", "staged"}
  /\ IF node[n].token
     THEN /\ node' = [node EXCEPT ![n].state = "teardown"]
          /\ pc' = [pc EXCEPT ![p] = "rm_list"]
          /\ cur' = [cur EXCEPT ![p] = n]
          /\ origin' = [origin EXCEPT ![p] = "drop"]
     ELSE /\ node' = [node EXCEPT ![n].state = "dropped"]
          /\ UNCHANGED <<pc, cur, origin>>
  /\ run' = Touched({n})
  /\ UNCHANGED <<rsVars, waitVars, alive, minted, monitoring, cleaner, detailsDir,
                 storages, todo, pending, result, views, crashes, began, rsrLog>>

\* Seeded fault: the token is leaked, its entry stays
drop_fields_LeakToken(p) ==
  /\ alive[p] /\ pc[p] = "drop_fields"
  /\ node' = [node EXCEPT ![cur[p]].state = "dropped", ![cur[p]].token = FALSE]
  /\ pc' = [pc EXCEPT ![p] = "idle"]
  /\ cur' = [cur EXCEPT ![p] = 0]
  /\ origin' = [origin EXCEPT ![p] = "none"]
  /\ result' = [result EXCEPT ![p] = "none"]
  /\ run' = Touched({cur[p]})
  /\ UNCHANGED <<rsVars, waitVars, alive, minted, monitoring, cleaner, detailsDir, storages,
                 todo, pending, views, crashes, began, rsrLog>>

\* The fields are dropped after Drop::drop: the token releases its entry
drop_fields(p) ==
  /\ alive[p] /\ pc[p] = "drop_fields"
  /\ monitoring' = [monitoring EXCEPT ![as_file_name(cur[p])] = "absent"]
  /\ node' = [node EXCEPT ![cur[p]].state = "dropped", ![cur[p]].token = FALSE]
  /\ pc' = [pc EXCEPT ![p] = "idle"]
  /\ cur' = [cur EXCEPT ![p] = 0]
  /\ origin' = [origin EXCEPT ![p] = "none"]
  /\ result' = [result EXCEPT ![p] = "none"]
  /\ run' = Touched({cur[p]})
  /\ UNCHANGED <<rsVars, waitVars, alive, minted, cleaner, detailsDir, storages, todo,
                 pending, views, crashes, began, rsrLog>>

\* ----------------------------------------------------------- remove_node
\* remove_node, step a: acquire_all_node_detail_storages
acquire_all_node_detail_storages(p) ==
  /\ alive[p] /\ pc[p] = "rm_list"
  /\ pending' = [pending EXCEPT ![p] = DOMAIN storages[cur[p]]]
  /\ pc' = [pc EXCEPT ![p] = "rm_files"]
  /\ UNCHANGED <<rsVars, waitVars, alive, minted, monitoring, cleaner, detailsDir, storages, node,
                 cur, todo, origin, result, views, crashes, run, began, rsrLog>>

\* Seeded fault: the entry is removed under the config's path, for every Node
remove_detail_storages_AnyNode(p) ==
  /\ alive[p] /\ pc[p] = "rm_files"
  /\ \E entry \in pending[p] :
       /\ storages' = [n \in NodeIds |-> Without(storages[n], entry)]
       /\ pending' = [pending EXCEPT ![p] = @ \ {entry}]
  /\ run' = Touched({cur[p]})
  /\ UNCHANGED <<rsVars, waitVars, alive, minted, monitoring, cleaner, detailsDir, node, pc, cur,
                 todo, origin, result, views, crashes, began, rsrLog>>

\* remove_node, step b: remove_detail_storages, one entry of the loop
remove_detail_storages(p) ==
  /\ alive[p] /\ pc[p] = "rm_files"
  /\ \E entry \in pending[p] :
       /\ storages' = [storages EXCEPT ![cur[p]] = Without(@, entry)]
       /\ pending' = [pending EXCEPT ![p] = @ \ {entry}]
  /\ run' = Touched({cur[p]})
  /\ UNCHANGED <<rsVars, waitVars, alive, minted, monitoring, cleaner, detailsDir, node, pc, cur,
                 todo, origin, result, views, crashes, began, rsrLog>>

\* What remove_node returns after remove_path_hint on the directory
remove_node_result(empty) == IF empty THEN "Ok(true)" ELSE "Err(InternalError)"

\* Seeded fault: the path that is removed is the one all Nodes' details are under
remove_node_details_directory_Parent(p) ==
  /\ alive[p] /\ pc[p] = "rm_files" /\ pending[p] = {}
  /\ LET empty == DOMAIN storages[cur[p]] = {}
     IN /\ detailsDir' = IF empty THEN [n \in NodeIds |-> FALSE] ELSE detailsDir
        /\ storages' = IF empty THEN [n \in NodeIds |-> NoStorages] ELSE storages
        /\ result' = [result EXCEPT ![p] = remove_node_result(empty)]
  /\ pc' = [pc EXCEPT ![p] = IF origin[p] = "drop" THEN "drop_fields" ELSE "rsr_return"]
  /\ run' = Touched({cur[p]})
  /\ UNCHANGED <<rsVars, waitVars, alive, minted, monitoring, cleaner, node, cur,
                 todo, pending, origin, views, crashes, began, rsrLog>>

\* remove_node, step c: remove_node_details_directory, then Ok(true)
remove_node_details_directory(p) ==
  /\ alive[p] /\ pc[p] = "rm_files" /\ pending[p] = {}
  /\ LET empty == DOMAIN storages[cur[p]] = {}
     IN /\ detailsDir' = [detailsDir EXCEPT ![cur[p]] = IF empty THEN FALSE ELSE @]
        /\ result' = [result EXCEPT ![p] = remove_node_result(empty)]
  /\ pc' = [pc EXCEPT ![p] = IF origin[p] = "drop" THEN "drop_fields" ELSE "rsr_return"]
  /\ run' = Touched({cur[p]})
  /\ UNCHANGED <<rsVars, waitVars, alive, minted, monitoring, cleaner, storages, node, cur,
                 todo, pending, origin, views, crashes, began, rsrLog>>

\* Where remove_node returns to: SharedNode::drop or remove_stale_resources
remove_node_returns(p) == IF origin[p] = "drop" THEN "drop_fields" ELSE "rsr_return"

\* remove_node, step a failing: list_cfg fails and `?` returns its error
acquire_all_node_detail_storages_fails(p) ==
  /\ alive[p] /\ pc[p] = "rm_list"
  /\ \E e \in {"InsufficientPermissions", "InternalError"} :
       result' = [result EXCEPT ![p] = IF e = "InsufficientPermissions"
                                       THEN "Err(InsufficientPermissions)"
                                       ELSE "Err(InternalError)"]
  /\ pc' = [pc EXCEPT ![p] = remove_node_returns(p)]
  /\ UNCHANGED <<rsVars, waitVars, alive, minted, monitoring, cleaner, detailsDir,
                 storages, node, cur, todo, pending, origin, views, crashes, run, began,
                 rsrLog>>

\* Seeded fault: a failed removal is passed over and the loop goes on
remove_detail_storages_fails_GoesOn(p) ==
  /\ alive[p] /\ pc[p] = "rm_files"
  /\ \E entry \in pending[p], e \in {"InsufficientPermissions", "InternalError"} :
       /\ result' = [result EXCEPT ![p] = "Err(InsufficientPermissions)"]
       /\ pending' = [pending EXCEPT ![p] = @ \ {entry}]
  /\ UNCHANGED <<rsVars, waitVars, alive, minted, monitoring, cleaner, detailsDir,
                 storages, node, pc, cur, todo, origin, views, crashes, run, began, rsrLog>>

\* remove_node, step b failing: remove_cfg of an entry fails; either error
\* becomes NodeCleanupFailure::InsufficientPermissions and the loop is left
remove_detail_storages_fails(p) ==
  /\ alive[p] /\ pc[p] = "rm_files"
  /\ \E entry \in pending[p], e \in {"InsufficientPermissions", "InternalError"} :
       /\ result' = [result EXCEPT ![p] = "Err(InsufficientPermissions)"]
       /\ pending' = [pending EXCEPT ![p] = {}]
       /\ pc' = [pc EXCEPT ![p] = remove_node_returns(p)]
  /\ UNCHANGED <<rsVars, waitVars, alive, minted, monitoring, cleaner, detailsDir,
                 storages, node, cur, todo, origin, views, crashes, run, began, rsrLog>>

\* remove_node, step c failing: remove_path_hint fails for a reason of its own
remove_node_details_directory_fails(p) ==
  /\ alive[p] /\ pc[p] = "rm_files" /\ pending[p] = {}
  /\ \E e \in {"InsufficientPermissions", "InternalError"} :
       result' = [result EXCEPT ![p] = IF e = "InsufficientPermissions"
                                       THEN "Err(InsufficientPermissions)"
                                       ELSE "Err(InternalError)"]
  /\ pc' = [pc EXCEPT ![p] = remove_node_returns(p)]
  /\ UNCHANGED <<rsVars, waitVars, alive, minted, monitoring, cleaner, detailsDir,
                 storages, node, cur, todo, pending, origin, views, crashes, run, began,
                 rsrLog>>

\* ------------------------------------------------------------- crash
\* What a process would leave behind: Nodes not torn down, cleaners in its hands
Holds(p) == \/ \E n \in NodeIds : pid(n) = p
                                   /\ node[n].state \in {"building", "alive", "teardown"}
            \/ \E f \in FileNames : cleaner[f] = p

\* The process dies without teardown (SIGKILL): its tokens are abandoned, the
\* locks it held are released by the system, nothing it owned is removed.  The
\* death of a process that holds nothing changes nothing another process can
\* see, so only the death of a process that holds something is a step.
crash(p) ==
  /\ alive[p] /\ crashes < MaxCrashes
  /\ Holds(p)
  /\ alive' = [alive EXCEPT ![p] = FALSE]
  /\ crashes' = crashes + 1
  /\ monitoring' = [f \in FileNames |->
                      IF pid(parse_u128(f)) = p /\ monitoring[f] = "held"
                      THEN "abandoned" ELSE monitoring[f]]
  /\ cleaner' = [f \in FileNames |-> IF cleaner[f] = p THEN 0 ELSE cleaner[f]]
  /\ node' = [n \in NodeIds |->
                IF pid(n) = p /\ node[n].state \in {"building", "alive", "teardown"}
                THEN [node[n] EXCEPT !.state = "crashed", !.diedIn = node[n].state]
                ELSE node[n]]
  /\ pc' = [pc EXCEPT ![p] = "dead"]
  /\ cur' = [cur EXCEPT ![p] = 0]
  /\ todo' = [todo EXCEPT ![p] = {}]
  /\ pending' = [pending EXCEPT ![p] = {}]
  /\ origin' = [origin EXCEPT ![p] = "none"]
  /\ result' = [result EXCEPT ![p] = "none"]
  /\ views' = [views EXCEPT ![p] = {}]
  /\ began' = [began EXCEPT ![p] = NoBegan]
  /\ run' = IF run.by = p THEN NoRun
            ELSE Touched({n \in NodeIds : (pid(n) = p /\ node[n].state # "none")
                                           \/ cleaner[as_file_name(n)] = p})
  /\ UNCHANGED <<rsVars, waitVars, minted, detailsDir, storages, rsrLog>>

\* ----------------------------------------------------------- Node::list
\* Result<T, E>
Ok(v) == [ok |-> TRUE, val |-> v]
Err(e) == [ok |-> FALSE, val |-> e]

\* What a backend call of one iteration of list may fail with ("none": it works)
DetailsFaults == {"none", "open_Read", "open_IsLocked", "open_InternalError",
                  "read", "corrupted"}
StateFaults == {"none", "monitor_InsufficientPermissions", "monitor_Interrupt",
                "monitor_InternalError", "state_Interrupt", "state_InternalError"}

\* The run record when list returns: Ok(()) unless an error ended the loop
FinishRun(r, p) == IF r.by = p
                   THEN [r EXCEPT !.done = TRUE,
                                  !.result = IF @ = "none" THEN "Ok(())" ELSE @]
                   ELSE r

\* Node::list_all_nodes, and the return of list when the directory is empty
list(p) ==
  /\ alive[p] /\ pc[p] = "idle"
  /\ \E observe \in BOOLEAN :
       LET node_list == list_cfg_monitoring
           r == IF observe THEN [NoRun EXCEPT !.by = p, !.listed = node_list] ELSE run
       IN /\ observe => run.by = 0
          /\ todo' = [todo EXCEPT ![p] = node_list]
          /\ run' = IF node_list = {} THEN FinishRun(r, p) ELSE r
          /\ pc' = [pc EXCEPT ![p] = IF node_list # {} THEN "list_loop"
                                     ELSE IF observe THEN "list_done" ELSE "idle"]
  /\ UNCHANGED <<rsVars, waitVars, alive, minted, monitoring, cleaner, detailsDir, storages, node,
                 cur, pending, origin, result, views, crashes, began, rsrLog>>

\* Node::open_node_storage: the bytes of the node artifact, None if there is none
open_node_storage(id, fault) ==
  IF "node" \notin DOMAIN storages[id] THEN Ok(None)
  ELSE IF fault = "open_Read" THEN Err("ReadError")
  ELSE IF fault = "open_IsLocked" THEN Err("Corrupted")
  ELSE IF fault = "open_InternalError" THEN Err("InternalError")
  ELSE Ok(Some(storages[id]["node"]))

\* Node::get_node_details: open_node_storage, read, deserialize
get_node_details(id, fault) ==
  LET node_storage == open_node_storage(id, fault)
  IN IF ~node_storage.ok THEN node_storage
     ELSE IF node_storage.val = None THEN Ok(None)
     ELSE IF fault = "read" THEN Err("ReadError")
     ELSE IF fault = "corrupted" \/ deserialize(node_storage.val[1]) = None
          THEN Err("Corrupted")
     ELSE Ok(deserialize(node_storage.val[1]))

\* Seeded fault: a failure to read the details yields default details
NodeState_details_Default(res) ==
  IF res.ok THEN res.val ELSE Some(NodeDetails("", GlobalConfig))

\* Seeded fault: the details are not passed on to the view
NodeState_details_Dropped(res) == None

\* NodeState::new, the details of the view: an error becomes None
NodeState_details(res) == IF res.ok THEN res.val ELSE None

\* Node::state_from_monitor
state_from_monitor(f, fault) ==
  IF fault = "state_Interrupt" THEN Err("Interrupt")
  ELSE IF fault = "state_InternalError" THEN Err("InternalError")
  ELSE Ok(monitor_state(f))

\* Seeded fault: every node is taken for the caller's own
get_node_state_AlwaysAlive(p, id, fault) == Ok("Alive")

\* Seeded fault: the monitor is asked about the caller's own nodes too
get_node_state_NoShortcut(p, id, fault) ==
  IF fault = "monitor_InsufficientPermissions" THEN Err("InsufficientPermissions")
  ELSE IF fault = "monitor_Interrupt" THEN Err("Interrupt")
  ELSE IF fault = "monitor_InternalError" THEN Err("InternalError")
  ELSE state_from_monitor(as_file_name(id), fault)

\* Node::get_node_state: the own pid is Alive, else the monitor decides
get_node_state(p, id, fault) ==
  IF pid(id) = p THEN Ok("Alive")
  ELSE IF fault = "monitor_InsufficientPermissions" THEN Err("InsufficientPermissions")
  ELSE IF fault = "monitor_Interrupt" THEN Err("Interrupt")
  ELSE IF fault = "monitor_InternalError" THEN Err("InternalError")
  ELSE state_from_monitor(as_file_name(id), fault)

\* A NodeState handed to the callback; Inaccessible and Undefined carry only the id
View(state, id, details) == [state |-> state, id |-> id, details |-> details]

\* Seeded fault: a dead node is passed over like a missing one
NodeState_new_SkipDead(state, id, details) ==
  IF state.ok
  THEN CASE state.val \in {"DoesNotExist", "Dead"} -> Ok(None)
         [] state.val = "Alive" -> Ok(Some(View("Alive", id, details)))
  ELSE CASE state.val = "InsufficientPermissions" -> Ok(Some(View("Inaccessible", id, None)))
         [] state.val = "InternalError" -> Ok(Some(View("Undefined", id, None)))
         [] OTHER -> state

\* Seeded fault: a node whose entry is gone is reported as dead
NodeState_new_MissingIsDead(state, id, details) ==
  IF state.ok
  THEN CASE state.val = "Alive" -> Ok(Some(View("Alive", id, details)))
         [] state.val \in {"DoesNotExist", "Dead"} -> Ok(Some(View("Dead", id, details)))
  ELSE CASE state.val = "InsufficientPermissions" -> Ok(Some(View("Inaccessible", id, None)))
         [] state.val = "InternalError" -> Ok(Some(View("Undefined", id, None)))
         [] OTHER -> state

\* Seeded fault: an interrupt is reported as an undefined node
NodeState_new_InterruptIsUndefined(state, id, details) ==
  IF state.ok
  THEN CASE state.val = "DoesNotExist" -> Ok(None)
         [] state.val = "Alive" -> Ok(Some(View("Alive", id, details)))
         [] state.val = "Dead" -> Ok(Some(View("Dead", id, details)))
  ELSE CASE state.val = "InsufficientPermissions" -> Ok(Some(View("Inaccessible", id, None)))
         [] OTHER -> Ok(Some(View("Undefined", id, None)))

\* Seeded fault: a node whose monitor cannot be created is handed out as dead
NodeState_new_InaccessibleIsDead(state, id, details) ==
  IF state.ok
  THEN CASE state.val = "DoesNotExist" -> Ok(None)
         [] state.val = "Alive" -> Ok(Some(View("Alive", id, details)))
         [] state.val = "Dead" -> Ok(Some(View("Dead", id, details)))
  ELSE CASE state.val = "InsufficientPermissions" -> Ok(Some(View("Dead", id, details)))
         [] state.val = "InternalError" -> Ok(Some(View("Undefined", id, None)))
         [] OTHER -> state

\* Seeded fault: a node that is alive is handed out as dead
NodeState_new_AliveIsDead(state, id, details) ==
  IF state.ok
  THEN CASE state.val = "DoesNotExist" -> Ok(None)
         [] state.val \in {"Alive", "Dead"} -> Ok(Some(View("Dead", id, details)))
  ELSE CASE state.val = "InsufficientPermissions" -> Ok(Some(View("Inaccessible", id, None)))
         [] state.val = "InternalError" -> Ok(Some(View("Undefined", id, None)))
         [] OTHER -> state

\* NodeState::new, the match on get_node_state
NodeState_new(state, id, details) ==
  IF state.ok
  THEN CASE state.val = "DoesNotExist" -> Ok(None)
         [] state.val = "Alive" -> Ok(Some(View("Alive", id, details)))
         [] state.val = "Dead" -> Ok(Some(View("Dead", id, details)))
  ELSE CASE state.val = "InsufficientPermissions" -> Ok(Some(View("Inaccessible", id, None)))
         [] state.val = "InternalError" -> Ok(Some(View("Undefined", id, None)))
         [] OTHER -> state

\* The error list returns
NodeListFailure(e) == CASE e = "Interrupt" -> "Err(Interrupt)"
                        [] e = "InternalError" -> "Err(InternalError)"
                        [] e = "InsufficientPermissions" -> "Err(InsufficientPermissions)"
                        [] OTHER -> "Err(ReadError)"

\* The callback keeps the DeadNodeView it is given, in place of an older view of
\* the same NodeId
Keep(vs, view) == {v \in vs : v.id # view.id} \cup {view}

\* Seeded fault: Stop is not honoured
list_breaks_Never(called, progression) == FALSE

\* list: if callback(node_state) == CallbackProgression::Stop { break; }
list_breaks(called, progression) == called /\ progression = "Stop"

\* One iteration of the loop of list: take the next name, parse the NodeId,
\* NodeState::new (get_node_details, then get_node_state), the callback, and
\* Stop, an error or the next iteration.  list leaves the loop after the last
\* name.  The backend calls of the iteration fail as dfault and sfault say.
list_iter(p, dfault, sfault) ==
  /\ alive[p] /\ pc[p] = "list_loop"
  /\ \E node_name \in todo[p], progression \in {"Continue", "Stop"} :
       \E node_id \in {parse_u128(node_name)} :
       \E read \in {get_node_details(node_id, dfault)} :
       \E state \in {get_node_state(p, node_id, sfault)} :
       \E details \in {NodeState_details(read)} :
       \E node_state \in {NodeState_new(state, node_id, details)} :
       \E called \in {node_state.ok /\ node_state.val # None} :
       LET failed == ~node_state.ok
           leave == failed \/ list_breaks(called, progression) \/ todo[p] = {node_name}
           r == IF run.by # p THEN run
                ELSE [run EXCEPT
                        !.reports = IF called THEN Append(@, node_state.val[1]) ELSE @,
                        !.queries = @ \cup {[id |-> node_id, details |-> read,
                                              state |-> state]},
                        !.skipped = IF node_state.ok /\ ~called
                                    THEN @ \cup {node_id} ELSE @,
                        !.stopped = @ \/ (called /\ progression = "Stop"),
                        !.failed = IF failed THEN node_id ELSE @,
                        !.result = IF failed THEN NodeListFailure(node_state.val) ELSE @]
       IN /\ called \/ progression = "Continue"
          /\ views' = IF called /\ node_state.val[1].state = "Dead"
                      THEN [views EXCEPT ![p] = Keep(@, [id |-> node_id,
                                                        details |-> details])]
                      ELSE views
          /\ IF leave
             THEN /\ run' = FinishRun(r, p)
                  /\ pc' = [pc EXCEPT ![p] = IF run.by = p THEN "list_done"
                                             ELSE "idle"]
                  /\ todo' = [todo EXCEPT ![p] = {}]
             ELSE /\ run' = r
                  /\ pc' = pc
                  /\ todo' = [todo EXCEPT ![p] = @ \ {node_name}]
  /\ UNCHANGED <<rsVars, waitVars, alive, minted, monitoring, cleaner, detailsDir, storages, node,
                 cur, pending, origin, result, crashes, began, rsrLog>>

\* An iteration in which every backend call works
list_next(p) == list_iter(p, "none", "none")

\* An iteration in which a backend call fails
list_next_fault(p) ==
  \E dfault \in DetailsFaults, sfault \in StateFaults :
    /\ dfault # "none" \/ sfault # "none"
    /\ list_iter(p, dfault, sfault)

\* The observed run is over: list has returned and its record is dropped
list_return(p) ==
  /\ alive[p] /\ pc[p] = "list_done"
  /\ pc' = [pc EXCEPT ![p] = "idle"]
  /\ run' = NoRun
  /\ UNCHANGED <<rsVars, waitVars, alive, minted, monitoring, cleaner, detailsDir, storages, node,
                 cur, todo, pending, origin, result, views, crashes,
                 began, rsrLog>>

\* ------------------------------------ DeadNodeView::remove_stale_resources
\* Seeded fault: a cleaner owned by another instance counts as a success
rsr_on_cleaner_OwnedIsSuccess(outcome, details) ==
  CASE outcome = "Ok" -> IF details # None THEN "remove_node" ELSE "Ok(true)"
    [] outcome = "AlreadyOwnedByAnotherInstance" -> "Ok(true)"
    [] outcome = "DoesNotExist" -> "Ok(false)"
    [] outcome = "Interrupt" -> "Err(Interrupt)"
    [] outcome = "InternalError" -> "Err(InternalError)"
    [] outcome = "InstanceStillAlive" -> "fatal"

\* Seeded fault: a monitoring entry that is gone counts as a success
rsr_on_cleaner_MissingIsSuccess(outcome, details) ==
  CASE outcome = "Ok" -> IF details # None THEN "remove_node" ELSE "Ok(true)"
    [] outcome = "AlreadyOwnedByAnotherInstance" -> "Ok(false)"
    [] outcome = "DoesNotExist" -> "Ok(true)"
    [] outcome = "Interrupt" -> "Err(Interrupt)"
    [] outcome = "InternalError" -> "Err(InternalError)"
    [] outcome = "InstanceStillAlive" -> "fatal"

\* Seeded fault: a monitoring entry that is gone is an error
rsr_on_cleaner_MissingIsError(outcome, details) ==
  CASE outcome = "Ok" -> IF details # None THEN "remove_node" ELSE "Ok(true)"
    [] outcome = "AlreadyOwnedByAnotherInstance" -> "Ok(false)"
    [] outcome = "DoesNotExist" -> "Err(InternalError)"
    [] outcome = "Interrupt" -> "Err(Interrupt)"
    [] outcome = "InternalError" -> "Err(InternalError)"
    [] outcome = "InstanceStillAlive" -> "fatal"

\* What remove_stale_resources does with the outcome of Builder::cleaner()
rsr_on_cleaner(outcome, details) ==
  CASE outcome = "Ok" -> IF details # None THEN "remove_node" ELSE "Ok(true)"
    [] outcome \in {"AlreadyOwnedByAnotherInstance", "DoesNotExist"} -> "Ok(false)"
    [] outcome = "Interrupt" -> "Err(Interrupt)"
    [] outcome = "InternalError" -> "Err(InternalError)"
    [] outcome = "InstanceStillAlive" -> "fatal"

\* remove_stale_resources up to the acquisition of the cleaner; without the
\* cleaner it returns at once
remove_stale_resources(p, view) ==
  /\ alive[p] /\ pc[p] = "idle"
  /\ view \in views[p]
  /\ Len(rsrLog[view.id]) < MaxRsrCalls
  /\ LET monitor_name == to_string(view.id)
         outcome == cleaner_outcome(monitor_name)
         todo_next == rsr_on_cleaner(outcome, view.details)
     IN /\ cleaner' = IF outcome = "Ok"
                      THEN [cleaner EXCEPT ![monitor_name] = p] ELSE cleaner
        /\ node' = IF outcome = "Ok"
                   THEN [node EXCEPT ![view.id].reaped = TRUE] ELSE node
        /\ run' = IF outcome = "Ok" THEN Touched({view.id}) ELSE run
        /\ CASE todo_next = "remove_node" ->
                  /\ pc' = [pc EXCEPT ![p] = "rm_list"]
                  /\ origin' = [origin EXCEPT ![p] = "rsr"]
                  /\ cur' = [cur EXCEPT ![p] = view.id]
                  /\ began' = [began EXCEPT ![p] = Began(view.id)]
                  /\ UNCHANGED <<result, rsrLog>>
             [] todo_next = "fatal" ->
                  /\ pc' = [pc EXCEPT ![p] = "panicked"]
                  /\ UNCHANGED <<origin, cur, result, began, rsrLog>>
             [] outcome = "Ok" /\ todo_next # "remove_node" ->
                  /\ pc' = [pc EXCEPT ![p] = "rsr_return"]
                  /\ origin' = [origin EXCEPT ![p] = "rsr"]
                  /\ cur' = [cur EXCEPT ![p] = view.id]
                  /\ result' = [result EXCEPT ![p] = todo_next]
                  /\ began' = [began EXCEPT ![p] = Began(view.id)]
                  /\ UNCHANGED rsrLog
             [] OTHER ->
                  /\ rsrLog' = [rsrLog EXCEPT ![view.id] =
                                  Append(@, Returned(todo_next, FALSE, Began(view.id)))]
                  /\ UNCHANGED <<pc, origin, cur, result, began>>
  /\ UNCHANGED <<rsVars, waitVars, alive, minted, monitoring, detailsDir, storages, todo,
                 pending, views, crashes>>

\* Seeded fault: the cleaner stays with the caller after the return
rsr_return_KeepsCleaner(p) ==
  /\ alive[p] /\ pc[p] = "rsr_return"
  /\ monitoring' = [monitoring EXCEPT ![as_file_name(cur[p])] = "absent"]
  /\ rsrLog' = [rsrLog EXCEPT ![cur[p]] = Append(@, Returned(result[p], TRUE, began[p]))]
  /\ pc' = [pc EXCEPT ![p] = "idle"]
  /\ cur' = [cur EXCEPT ![p] = 0]
  /\ origin' = [origin EXCEPT ![p] = "none"]
  /\ result' = [result EXCEPT ![p] = "none"]
  /\ began' = [began EXCEPT ![p] = NoBegan]
  /\ run' = Touched({cur[p]})
  /\ UNCHANGED <<rsVars, waitVars, alive, minted, cleaner, detailsDir, storages, node,
                 todo, pending, views, crashes>>

\* The return of remove_stale_resources: _cleaner goes out of scope, which
\* removes the monitoring entry of the dead Node and frees the cleaner
rsr_return(p) ==
  /\ alive[p] /\ pc[p] = "rsr_return"
  /\ LET f == as_file_name(cur[p])
     IN /\ monitoring' = [monitoring EXCEPT ![f] = "absent"]
        /\ cleaner' = [cleaner EXCEPT ![f] = 0]
  /\ rsrLog' = [rsrLog EXCEPT ![cur[p]] = Append(@, Returned(result[p], TRUE, began[p]))]
  /\ pc' = [pc EXCEPT ![p] = "idle"]
  /\ cur' = [cur EXCEPT ![p] = 0]
  /\ origin' = [origin EXCEPT ![p] = "none"]
  /\ result' = [result EXCEPT ![p] = "none"]
  /\ began' = [began EXCEPT ![p] = NoBegan]
  /\ run' = Touched({cur[p]})
  /\ UNCHANGED <<rsVars, waitVars, alive, minted, detailsDir, storages, node, todo, pending,
                 views, crashes>>

\* ------------------------------------------------------ RegisteredServices
NumThreads == 2        \* threads of the process that use the table
MaxRsOps == 4          \* add, add_or and remove calls begun in one run
Threads == 1..NumThreads
UUIDs == {"u1", "u2"}
Handles == {"h1", "h2"}            \* ContainerHandle
NoArg == [uuid |-> "", handle |-> ""]

\* History: per uuid the add/add_or calls that returned Ok, the remove calls that
\* returned, the insertions, the handle given at the last insertion, the
\* invocations of or_callback, and every invocation of a cleanup callback; ops
\* counts the calls begun
NoHist == [adds |-> [u \in UUIDs |-> 0], removes |-> [u \in UUIDs |-> 0],
           lives |-> [u \in UUIDs |-> 0], inserted |-> [u \in UUIDs |-> ""],
           opens |-> [u \in UUIDs |-> 0],
           cleanups |-> [u \in UUIDs |-> 0], calls |-> {}, ops |-> 0]

\* HashMap::insert of (handle, 1): the entry is replaced if there is one
insert(data, u, h) == [data EXCEPT ![u] = Some([handle |-> h, count |-> 1])]

\* RegisteredServices::add, called by t with a fresh handle or at the end of add_or
add_entry(t, u, h) ==
  /\ rsLock = 0
  /\ rsData' = insert(rsData, u, h)
  /\ rsFatal' = (rsData[u] # None)
  /\ rsHist' = IF rsData[u] # None THEN rsHist
               ELSE [rsHist EXCEPT !.adds[u] = @ + 1, !.lives[u] = @ + 1,
                                   !.inserted[u] = h]
  /\ rsPc' = [rsPc EXCEPT ![t] = "idle"]
  /\ rsArg' = [rsArg EXCEPT ![t] = NoArg]
  /\ UNCHANGED rsLock

\* add(uuid, handle) called directly (a service was created)
add(t, u, h) ==
  /\ ~rsFatal /\ rsPc[t] = "idle" /\ rsHist.ops < MaxRsOps
  /\ rsLock = 0
  /\ rsData' = insert(rsData, u, h)
  /\ rsFatal' = (rsData[u] # None)
  /\ rsHist' = IF rsData[u] # None THEN [rsHist EXCEPT !.ops = @ + 1]
               ELSE [rsHist EXCEPT !.ops = @ + 1, !.adds[u] = @ + 1,
                                   !.lives[u] = @ + 1, !.inserted[u] = h]
  /\ UNCHANGED <<nodeVars, waitVars, rsLock, rsPc, rsArg>>

\* add_or: data.lock()
add_or(t, u) ==
  /\ ~rsFatal /\ rsPc[t] = "idle" /\ rsHist.ops < MaxRsOps
  /\ rsLock = 0
  /\ rsLock' = t
  /\ rsPc' = [rsPc EXCEPT ![t] = "add_or_locked"]
  /\ rsArg' = [rsArg EXCEPT ![t] = [uuid |-> u, handle |-> ""]]
  /\ rsHist' = [rsHist EXCEPT !.ops = @ + 1]
  /\ UNCHANGED <<nodeVars, waitVars, rsData, rsFatal>>

\* Seeded fault: the count of an entry that is there is left as it is
add_or_increment_Forgotten(entry) == entry

\* add_or, Some(handle): handle.1 += 1
add_or_increment(entry) == [entry EXCEPT !.count = @ + 1]

\* Seeded fault: the callback runs whether the entry is there or not
add_or_get_AlwaysOpens(t) ==
  /\ ~rsFatal /\ rsPc[t] = "add_or_locked"
  /\ rsPc' = [rsPc EXCEPT ![t] = "or_callback"]
  /\ rsLock' = 0
  /\ UNCHANGED <<nodeVars, waitVars, rsFatal, rsData, rsHist, rsArg>>

\* add_or: get_mut; Some: the count is incremented and Ok(()) returned;
\* None: the lock is dropped and the callback runs next
add_or_get(t) ==
  /\ ~rsFatal /\ rsPc[t] = "add_or_locked"
  /\ LET u == rsArg[t].uuid
     IN IF rsData[u] # None
        THEN /\ rsData' = [rsData EXCEPT ![u] = Some(add_or_increment(@[1]))]
             /\ rsHist' = [rsHist EXCEPT !.adds[u] = @ + 1]
             /\ rsPc' = [rsPc EXCEPT ![t] = "idle"]
             /\ rsArg' = [rsArg EXCEPT ![t] = NoArg]
        ELSE /\ rsPc' = [rsPc EXCEPT ![t] = "or_callback"]
             /\ UNCHANGED <<rsData, rsHist, rsArg>>
  /\ rsLock' = 0
  /\ UNCHANGED <<nodeVars, waitVars, rsFatal>>

\* add_or: or_callback() returns a handle, or an error that add_or returns
or_callback(t) ==
  /\ ~rsFatal /\ rsPc[t] = "or_callback"
  /\ \/ \E h \in Handles :
          /\ rsArg' = [rsArg EXCEPT ![t].handle = h]
          /\ rsPc' = [rsPc EXCEPT ![t] = "add"]
     \/ /\ rsArg' = [rsArg EXCEPT ![t] = NoArg]
        /\ rsPc' = [rsPc EXCEPT ![t] = "idle"]
  /\ rsHist' = [rsHist EXCEPT !.opens[rsArg[t].uuid] = @ + 1]
  /\ UNCHANGED <<nodeVars, waitVars, rsData, rsLock, rsFatal>>

\* Seeded fault: an entry that is there by now is counted up, as if add_or had
\* found it
add_or_add_Merges(t) ==
  /\ ~rsFatal /\ rsPc[t] = "add"
  /\ rsLock = 0
  /\ LET u == rsArg[t].uuid
     IN /\ rsData' = IF rsData[u] # None
                     THEN [rsData EXCEPT ![u] = Some(add_or_increment(@[1]))]
                     ELSE insert(rsData, u, rsArg[t].handle)
        /\ rsHist' = IF rsData[u] # None
                     THEN [rsHist EXCEPT !.adds[u] = @ + 1]
                     ELSE [rsHist EXCEPT !.adds[u] = @ + 1, !.lives[u] = @ + 1,
                                         !.inserted[u] = rsArg[t].handle]
  /\ rsPc' = [rsPc EXCEPT ![t] = "idle"]
  /\ rsArg' = [rsArg EXCEPT ![t] = NoArg]
  /\ UNCHANGED <<nodeVars, waitVars, rsLock, rsFatal>>

\* add_or: self.add(uuid, handle) with the handle the callback returned
add_or_add(t) ==
  /\ ~rsFatal /\ rsPc[t] = "add"
  /\ add_entry(t, rsArg[t].uuid, rsArg[t].handle)
  /\ UNCHANGED <<nodeVars, waitVars>>

\* remove: data.lock()
remove(t, u) ==
  /\ ~rsFatal /\ rsPc[t] = "idle" /\ rsHist.ops < MaxRsOps
  /\ rsLock = 0
  /\ rsLock' = t
  /\ rsPc' = [rsPc EXCEPT ![t] = "remove_locked"]
  /\ rsArg' = [rsArg EXCEPT ![t] = [uuid |-> u, handle |-> ""]]
  /\ rsHist' = [rsHist EXCEPT !.ops = @ + 1]
  /\ UNCHANGED <<nodeVars, waitVars, rsData, rsFatal>>

\* Seeded fault: the entry is cleaned up one reference early
remove_cleans_OneEarly(count) == count <= 1

\* remove: whether cleanup_call is invoked, given the count after the decrement
remove_cleans(count) == count = 0

\* remove: the count is decremented; at zero cleanup_call(entry.0) is invoked
\* and the entry removed; a missing entry is fatal
remove_entry(t) ==
  /\ ~rsFatal /\ rsPc[t] = "remove_locked"
  /\ LET u == rsArg[t].uuid
     IN IF rsData[u] # None
        THEN LET entry == [rsData[u][1] EXCEPT !.count = @ - 1]
                 call == [uuid |-> u, handle |-> entry.handle, count |-> entry.count,
                          inserted |-> rsHist.inserted[u], caller |-> t,
                          lock |-> rsLock]
             IN /\ rsData' = [rsData EXCEPT ![u] = IF remove_cleans(entry.count)
                                                   THEN None ELSE Some(entry)]
                /\ rsHist' = IF remove_cleans(entry.count)
                             THEN [rsHist EXCEPT !.removes[u] = @ + 1,
                                                 !.cleanups[u] = @ + 1,
                                                 !.calls = @ \cup {call}]
                             ELSE [rsHist EXCEPT !.removes[u] = @ + 1]
                /\ rsFatal' = rsFatal
        ELSE /\ rsFatal' = TRUE
             /\ UNCHANGED <<rsData, rsHist>>
  /\ rsLock' = 0
  /\ rsPc' = [rsPc EXCEPT ![t] = "idle"]
  /\ rsArg' = [rsArg EXCEPT ![t] = NoArg]
  /\ UNCHANGED <<nodeVars, waitVars>>

\* -------------------------------------------------------------- Node::wait
MaxWaits == 3          \* wait calls in one run
MaxSignals == 2        \* signals delivered to the process in one run
Signals == {"SIGTERM", "SIGUSR1"}

NoSleep == [interrupted |-> FALSE, pendingAtCall |-> FALSE]

WaitInit ==
  /\ termination = FALSE
  /\ waitPc = "idle"
  /\ sleep = NoSleep
  /\ signals = 0
  /\ waitLog = <<>>

\* A wait call that returned: the event, whether termination was pending when it
\* was called, whether it slept ("no", "full", "interrupted") and whether
\* termination was pending when the sleep ended
Waited(event, atCall, slept, atWake) ==
  [event |-> event, pendingAtCall |-> atCall, slept |-> slept, pendingAtWake |-> atWake]

\* A signal is delivered to the process.  SIGTERM makes termination pending; the
\* signal interrupts the sleep in progress if the sleeping thread handles it.
signal(sig, hits) ==
  /\ signals < MaxSignals
  /\ signals' = signals + 1
  /\ termination' = (termination \/ sig = "SIGTERM")
  /\ sleep' = [sleep EXCEPT !.interrupted = @ \/ (hits /\ waitPc = "sleeping")]
  /\ UNCHANGED <<nodeVars, rsVars, waitPc, waitLog>>

\* Seeded fault: wait sleeps without looking at the termination request
wait_entry_NoCheck(requested) == "nanosleep"

\* wait: if SignalHandler::termination_requested() { return TerminationRequest }
wait_entry(requested) == IF requested THEN "TerminationRequest" ELSE "nanosleep"

\* Node::wait up to nanosleep
wait ==
  /\ waitPc = "idle" /\ Len(waitLog) < MaxWaits
  /\ IF wait_entry(termination) = "TerminationRequest"
     THEN /\ waitLog' = Append(waitLog, Waited("TerminationRequest", termination,
                                                "no", termination))
          /\ UNCHANGED <<waitPc, sleep>>
     ELSE /\ waitPc' = "sleeping"
          /\ sleep' = [interrupted |-> FALSE, pendingAtCall |-> termination]
          /\ UNCHANGED waitLog
  /\ UNCHANGED <<nodeVars, rsVars, termination, signals>>

\* Seeded fault: a pending termination is looked at first
wait_on_wake_TerminationFirst(slept, requested) ==
  IF requested THEN "TerminationRequest"
  ELSE IF slept = "Ok" THEN "Tick" ELSE "InterruptSignal"

\* wait: the match on what nanosleep returned
wait_on_wake(slept, requested) ==
  CASE slept = "Ok" -> IF requested THEN "TerminationRequest" ELSE "Tick"
    [] slept = "InterruptedBySignal" -> "InterruptSignal"
    [] OTHER -> "fatal"

\* nanosleep returns, after the full cycle_time or interrupted, and wait returns
nanosleep_returns ==
  /\ waitPc = "sleeping"
  /\ LET slept == IF sleep.interrupted THEN "InterruptedBySignal" ELSE "Ok"
     IN waitLog' = Append(waitLog,
                          Waited(wait_on_wake(slept, termination), sleep.pendingAtCall,
                                 IF sleep.interrupted THEN "interrupted" ELSE "full",
                                 termination))
  /\ waitPc' = "idle"
  /\ sleep' = NoSleep
  /\ UNCHANGED <<nodeVars, rsVars, termination, signals>>

\* nanosleep fails with another error: fatal_panic!
nanosleep_fails ==
  /\ waitPc = "sleeping"
  /\ wait_on_wake("InvalidArgument", termination) = "fatal"
  /\ waitPc' = "panicked"
  /\ sleep' = NoSleep
  /\ UNCHANGED <<nodeVars, rsVars, termination, signals, waitLog>>

\* ------------------------------------------------------- specification
RsInit ==
  /\ rsData = [u \in UUIDs |-> None]
  /\ rsLock = 0
  /\ rsPc = [t \in Threads |-> "idle"]
  /\ rsArg = [t \in Threads |-> NoArg]
  /\ rsFatal = FALSE
  /\ rsHist = NoHist

Init == NodeInit /\ RsInit /\ WaitInit

\* The name each building process gives its Nodes: the first leaves the
\* builder's default, the others set one
BuilderName(p) == IF p = 1 THEN "" ELSE "a"

Next ==
  \/ \E p \in Builders : create_node_details_storage(p, BuilderName(p))
  \/ \E p \in Procs : create_token(p)
  \/ \E p \in Procs, n \in NodeIds : create_service(p, n)
  \/ \E p \in Procs, n \in NodeIds : drop(p, n)
  \/ \E p \in Procs : drop_fields(p)
  \/ \E p \in Procs : acquire_all_node_detail_storages(p)
  \/ \E p \in Procs : remove_detail_storages(p)
  \/ \E p \in Procs : remove_node_details_directory(p)
  \/ \E p \in Procs : crash(p)
  \/ \E p \in Procs : list(p)
  \/ \E p \in Procs : list_next(p)
  \/ \E p \in Procs : list_return(p)
  \/ \E p \in Procs : \E view \in views[p] : remove_stale_resources(p, view)
  \/ \E p \in Procs : rsr_return(p)

Spec == Init /\ [][Next]_vars

\* The RegisteredServices table of one Node, used by the threads of its process
NextRS ==
  \/ \E t \in Threads, u \in UUIDs, h \in Handles : add(t, u, h)
  \/ \E t \in Threads, u \in UUIDs : add_or(t, u)
  \/ \E t \in Threads : add_or_get(t)
  \/ \E t \in Threads : or_callback(t)
  \/ \E t \in Threads : add_or_add(t)
  \/ \E t \in Threads, u \in UUIDs : remove(t, u)
  \/ \E t \in Threads : remove_entry(t)
SpecRS == Init /\ [][NextRS]_vars

\* The processes that create Nodes stage their death, drop them and list and
\* clean up each other's Nodes; none crashes
NextStaged ==
  \/ \E p \in Builders : create_node_details_storage(p, BuilderName(p))
  \/ \E p \in Procs : create_token(p)
  \/ \E p \in Procs, n \in NodeIds : staged_death(p, n)
  \/ \E p \in Procs, n \in NodeIds : drop(p, n)
  \/ \E p \in Procs : drop_fields(p)
  \/ \E p \in Procs : acquire_all_node_detail_storages(p)
  \/ \E p \in Procs : remove_detail_storages(p)
  \/ \E p \in Procs : remove_node_details_directory(p)
  \/ \E p \in Builders : list(p)
  \/ \E p \in Builders : list_next(p)
  \/ \E p \in Builders : list_return(p)
  \/ \E p \in Builders : \E view \in views[p] : remove_stale_resources(p, view)
  \/ \E p \in Builders : rsr_return(p)
SpecStaged == Init /\ [][NextStaged]_vars

\* Builders create Nodes, fail at the token step or are killed; the other
\* processes are peers that list and clean up what list reports, for ever
Peers == Procs \ Builders
NextOrphan ==
  \/ \E p \in Builders : create_node_details_storage(p, BuilderName(p))
  \/ \E p \in Builders : create_token(p)
  \/ \E p \in Builders : create_token_fails(p)
  \/ \E p \in Builders : crash(p)
  \/ \E p \in Peers : list(p)
  \/ \E p \in Peers : list_next(p)
  \/ \E p \in Peers : list_return(p)
  \/ \E p \in Peers : \E view \in views[p] : remove_stale_resources(p, view)
  \/ \E p \in Peers : acquire_all_node_detail_storages(p)
  \/ \E p \in Peers : remove_detail_storages(p)
  \/ \E p \in Peers : remove_node_details_directory(p)
  \/ \E p \in Peers : rsr_return(p)
\* Whatever a peer can do next: its list, its cleanup of a dead Node
PeerStep(p) ==
  \/ list(p) \/ list_next(p) \/ list_return(p)
  \/ \E view \in views[p] : remove_stale_resources(p, view)
  \/ acquire_all_node_detail_storages(p) \/ remove_detail_storages(p)
  \/ remove_node_details_directory(p) \/ rsr_return(p)
\* Every peer keeps running, and does not let a cleanup wait for ever
SpecOrphan ==
  /\ Init /\ [][NextOrphan]_vars
  /\ \A p \in Peers : WF_vars(PeerStep(p))
  /\ \A p \in Peers : SF_vars(\E view \in views[p] : remove_stale_resources(p, view))

\* Builders create and drop Nodes or are killed; the peers list them while the
\* backends of an iteration may fail
NextFault ==
  \/ \E p \in Builders : create_node_details_storage(p, BuilderName(p))
  \/ \E p \in Builders : create_token(p)
  \/ \E p \in Builders, n \in NodeIds : drop(p, n)
  \/ \E p \in Builders : acquire_all_node_detail_storages(p)
  \/ \E p \in Builders : remove_detail_storages(p)
  \/ \E p \in Builders : remove_node_details_directory(p)
  \/ \E p \in Builders : drop_fields(p)
  \/ \E p \in Builders : crash(p)
  \/ \E p \in Peers : list(p)
  \/ \E p \in Peers : list_next(p)
  \/ \E p \in Peers : list_next_fault(p)
  \/ \E p \in Peers : list_return(p)
SpecFault == Init /\ [][NextFault]_vars

\* Builders create Nodes with services and drop them or are killed, the peers
\* clean up; each step of remove_node may fail
NextRemove ==
  \/ \E p \in Builders : create_node_details_storage(p, BuilderName(p))
  \/ \E p \in Builders : create_token(p)
  \/ \E p \in Builders, n \in NodeIds : create_service(p, n)
  \/ \E p \in Builders, n \in NodeIds : drop(p, n)
  \/ \E p \in Procs : acquire_all_node_detail_storages(p)
  \/ \E p \in Procs : acquire_all_node_detail_storages_fails(p)
  \/ \E p \in Procs : remove_detail_storages(p)
  \/ \E p \in Procs : remove_detail_storages_fails(p)
  \/ \E p \in Procs : remove_node_details_directory(p)
  \/ \E p \in Procs : remove_node_details_directory_fails(p)
  \/ \E p \in Builders : drop_fields(p)
  \/ \E p \in Builders : crash(p)
  \/ \E p \in Peers : list(p)
  \/ \E p \in Peers : list_next(p)
  \/ \E p \in Peers : list_return(p)
  \/ \E p \in Peers : \E view \in views[p] : remove_stale_resources(p, view)
  \/ \E p \in Peers : rsr_return(p)
SpecRemove == Init /\ [][NextRemove]_vars

\* Builders create Nodes and are killed; every process lists and cleans up the
\* dead Nodes, each step of remove_node may fail, and a cleaning process may be
\* killed too
NextClean ==
  \/ \E p \in Builders : create_node_details_storage(p, BuilderName(p))
  \/ \E p \in Builders : create_token(p)
  \/ \E p \in Procs : crash(p)
  \/ \E p \in Procs : list(p)
  \/ \E p \in Procs : list_next(p)
  \/ \E p \in Procs : list_return(p)
  \/ \E p \in Procs : \E view \in views[p] : remove_stale_resources(p, view)
  \/ \E p \in Procs : acquire_all_node_detail_storages(p)
  \/ \E p \in Procs : acquire_all_node_detail_storages_fails(p)
  \/ \E p \in Procs : remove_detail_storages(p)
  \/ \E p \in Procs : remove_detail_storages_fails(p)
  \/ \E p \in Procs : remove_node_details_directory(p)
  \/ \E p \in Procs : remove_node_details_directory_fails(p)
  \/ \E p \in Procs : rsr_return(p)
SpecClean == Init /\ [][NextClean]_vars

\* Builders create Nodes, each step of create may fail, and drop them or are
\* killed; the peers list
NextCreate ==
  \/ \E p \in Builders : create_node_details_storage(p, BuilderName(p))
  \/ \E p \in Builders : create_node_details_storage_fails(p)
  \/ \E p \in Builders : create_token(p)
  \/ \E p \in Builders : create_token_fails(p)
  \/ \E p \in Builders, n \in NodeIds : drop(p, n)
  \/ \E p \in Builders : acquire_all_node_detail_storages(p)
  \/ \E p \in Builders : remove_detail_storages(p)
  \/ \E p \in Builders : remove_node_details_directory(p)
  \/ \E p \in Builders : drop_fields(p)
  \/ \E p \in Builders : crash(p)
  \/ \E p \in Peers : list(p)
  \/ \E p \in Peers : list_next(p)
  \/ \E p \in Peers : list_return(p)
SpecCreate == Init /\ [][NextCreate]_vars

\* One thread of a process calls Node::wait while signals arrive
NextWait ==
  \/ \E sig \in Signals, hits \in BOOLEAN : signal(sig, hits)
  \/ wait
  \/ nanosleep_returns
  \/ nanosleep_fails
SpecWait == Init /\ [][NextWait]_vars

\* ------------------------------------------------------------- properties
\* The results of the calls of remove_stale_resources on n that returned
Calls(n) == {rsrLog[n][i] : i \in 1..Len(rsrLog[n])}
\* The callbacks the observed list run made for n
Reports(n) == {i \in 1..Len(run.reports) : run.reports[i].id = n}
\* The observed run went through every name of its listing
Complete == run.by # 0 /\ run.done /\ ~run.stopped
\* n was not created, torn down, cleaned or orphaned since the observed run began
Stable(n) == n \notin run.touched
Present(n) == monitoring[as_file_name(n)] # "absent"
\* n died with its token and no cleaner was acquired for it since
Corpse(n) == node[n].state = "crashed" /\ node[n].diedIn = "alive"
             /\ ~node[n].reaped

\* C1: of the remove_stale_resources calls on one NodeId at most one returns
\* Ok(true); every other call returns Ok(false) or an error.
C1_AtMostOneOkTrue ==
  \A n \in NodeIds :
    /\ Cardinality({i \in 1..Len(rsrLog[n]) : rsrLog[n][i].res = "Ok(true)"}) <= 1
    /\ \A c \in Calls(n) : c.res \in {"Ok(true)", "Ok(false)", "Err(Interrupt)",
                                      "Err(InternalError)"}
\* Two calls that overlapped: neither began after the other returned, one won
C1_Witness ==
  \E n \in NodeIds :
    /\ Len(rsrLog[n]) = 2
    /\ \A c \in Calls(n) : c.after = 0
    /\ {c.res : c \in Calls(n)} = {"Ok(true)", "Ok(false)"}

\* C2: once remove_stale_resources returned Ok(true) for a NodeId, it has no
\* monitoring entry, no details directory and no artifact, whether the view
\* carried details or not.  (Refuted: a view without details returns Ok(true)
\* and leaves the directory.)
C2_OkTrueLeavesNothing ==
  \A n \in CleanedNodes :
    ~Present(n) /\ ~detailsDir[n] /\ DOMAIN storages[n] = {}

\* C3 as stated: a call that began after some call on the NodeId had returned
\* returns Ok(false).  (Refuted: the call that returned had lost to a cleaner
\* whose holder then died.)
C3_LaterCallReturnsFalse ==
  \A n \in NodeIds : \A c \in Calls(n) : c.after >= 1 => c.res = "Ok(false)"
\* C3 amended: a call that began after a call that held the cleaner of the
\* NodeId had returned does not get the cleaner: it returns Ok(false), or the
\* error of its cleaner acquisition.
C3_AfterCleanerHeldReturnsFalse ==
  \A n \in NodeIds : \A c \in Calls(n) :
    c.afterHeld => /\ ~c.held
                   /\ c.res \in {"Ok(false)", "Err(Interrupt)", "Err(InternalError)"}
C3_Witness ==
  \E n \in NodeIds : \E c \in Calls(n) : c.afterHeld /\ c.res = "Ok(false)"

\* C4: a complete list run by another process reports a Node whose owner died
\* without teardown, and that stayed so during the run, once and as Dead; it
\* makes no callback for a NodeId that was cleaned with Ok(true) before it began.
C4_CrashAndReap ==
  Complete =>
    /\ \A n \in NodeIds :
         node[n].state = "crashed" /\ node[n].diedIn = "alive" /\ Present(n)
         /\ Stable(n) /\ pid(n) # run.by
         => /\ Cardinality(Reports(n)) = 1
            /\ \A i \in Reports(n) : run.reports[i].state = "Dead"
    /\ \A n \in CleanedNodes : Stable(n) => Reports(n) = {}
C4_Witness ==
  /\ Complete
  /\ \E n \in NodeIds :
       /\ node[n].state = "crashed" /\ node[n].diedIn = "alive" /\ Present(n)
       /\ Stable(n) /\ pid(n) # run.by /\ Reports(n) # {}
  /\ \E n \in CleanedNodes : Stable(n)

\* C5: a complete list run by another process reports a Node that was alive
\* throughout once, as Alive, with its id and with details that carry the name
\* given to the builder; it makes no callback for a Node whose drop had completed
\* before it began.
C5_CreateListDrop ==
  Complete =>
    /\ \A n \in AliveNodes :
         Stable(n) /\ pid(n) # run.by
         => /\ Cardinality(Reports(n)) = 1
            /\ \A i \in Reports(n) :
                 /\ run.reports[i].state = "Alive"
                 /\ run.reports[i].details # None
                 /\ run.reports[i].details[1].name = node[n].name
    /\ \A n \in DroppedNodes : Stable(n) => Reports(n) = {}
C5_Witness ==
  /\ Complete
  /\ \E n \in AliveNodes : /\ Stable(n) /\ pid(n) # run.by /\ node[n].name = "a"
                           /\ Reports(n) # {}
  /\ \E n \in DroppedNodes : Stable(n)

C7_OneNodeArtifact ==
  \A n \in NodeIds :
    node[n].state = "alive" \/ Corpse(n)
    => /\ detailsDir[n]
       /\ Cardinality({a \in DOMAIN storages[n] : a = "node"}) = 1
C7_Witness ==
  \E n \in NodeIds : Corpse(n) /\ "service" \in DOMAIN storages[n]
                     /\ \E p \in Procs : \E v \in views[p] : v.id = n

\* C8: a list run during which no Node was created, dropped, cleaned or orphaned
\* makes at most one callback per NodeId, and reports a NodeId as Alive exactly
\* when its creating process is alive.
C8_StableFabric ==
  run.by # 0 /\ run.done /\ run.touched = {} =>
    /\ \A n \in NodeIds : Cardinality(Reports(n)) <= 1
    /\ \A i \in 1..Len(run.reports) :
         run.reports[i].state = "Alive" <=> alive[pid(run.reports[i].id)]
C8_Witness ==
  /\ run.by # 0 /\ run.done /\ run.touched = {}
  /\ {run.reports[i].state : i \in 1..Len(run.reports)} = {"Alive", "Dead"}

\* C9: while no call was fatal, for every uuid the stored count is the number of
\* add and add_or calls that returned Ok minus the number of remove calls, the
\* entry is absent iff that difference is zero, and no entry has count 0.
C9_Refcount ==
  ~rsFatal =>
    \A u \in UUIDs :
      LET diff == rsHist.adds[u] - rsHist.removes[u]
      IN /\ rsData[u] = None <=> diff = 0
         /\ rsData[u] # None => rsData[u][1].count = diff /\ rsData[u][1].count >= 1
C9_Witness ==
  /\ ~rsFatal /\ \A t \in Threads : rsPc[t] = "idle"
  /\ \E u \in UUIDs : /\ rsData[u] # None /\ rsData[u][1].count = 2
                      /\ rsHist.removes[u] >= 1

\* C10: while no call was fatal, every lifecycle of an entry that has ended saw
\* one cleanup call and the one in progress none; every cleanup call was made by
\* the remove that brought the count to zero, with the handle stored at the
\* insertion, while the caller held the lock.
C10_CleanupOncePerLifecycle ==
  ~rsFatal =>
    /\ \A u \in UUIDs :
         rsHist.cleanups[u] = rsHist.lives[u] - (IF rsData[u] # None THEN 1 ELSE 0)
    /\ \A c \in rsHist.calls :
         c.count = 0 /\ c.handle = c.inserted /\ c.lock = c.caller
C10_Witness ==
  /\ ~rsFatal
  /\ \E c \in rsHist.calls : rsHist.removes[c.uuid] = 2 /\ rsHist.lives[c.uuid] = 1

\* C11: a wait call made while termination is pending returns
\* TerminationRequest without sleeping (so never Tick once SIGTERM was delivered).
C11_PendingTerminationReturnsAtOnce ==
  \A i \in 1..Len(waitLog) :
    waitLog[i].pendingAtCall =>
      waitLog[i].event = "TerminationRequest" /\ waitLog[i].slept = "no"
\* A Tick, then SIGTERM, then a wait
C11_Witness ==
  \E i \in 2..Len(waitLog) : /\ waitLog[i].pendingAtCall
                             /\ waitLog[i - 1].event = "Tick"

C13_OwnPidIsAlive ==
  run.by # 0 =>
    /\ \A n \in NodeIds :
         pid(n) = run.by => /\ n \notin run.skipped
                            /\ \A i \in Reports(n) : run.reports[i].state = "Alive"
    /\ Complete => \A f \in run.listed :
                     pid(parse_u128(f)) = run.by => Reports(parse_u128(f)) # {}
\* The run reported an own Node that the monitor held for dead throughout
C13_Witness ==
  /\ Complete
  /\ \E n \in NodeIds : /\ pid(n) = run.by /\ Stable(n) /\ Reports(n) # {}
                        /\ monitor_state(as_file_name(n)) = "Dead"

\* C18: the drop of the last handle calls remove_node for its own id if the
\* token slot is Some; if it is None the drop removes nothing: artifacts,
\* directories and monitoring entries are as before.
C18_TeardownNeedsToken ==
  [][\A n \in NodeIds :
       node[n].state \in {"alive", "staged"}
       /\ node'[n].state \in {"teardown", "dropped"}
       => IF node[n].token
          THEN /\ node'[n].state = "teardown"
               /\ pc'[pid(n)] = "rm_list" /\ cur'[pid(n)] = n
               /\ origin'[pid(n)] = "drop"
          ELSE /\ node'[n].state = "dropped"
               /\ pc'[pid(n)] = pc[pid(n)]
               /\ storages' = storages /\ detailsDir' = detailsDir
               /\ monitoring' = monitoring]_vars
\* A Node dropped after staged_death, its details still there, and a Node whose
\* drop with the token removed them
C18_Witness ==
  /\ \E n \in NodeIds : /\ node[n].state = "dropped" /\ node[n].diedIn = "staged"
                        /\ ~node[n].reaped
                        /\ detailsDir[n] /\ "node" \in DOMAIN storages[n]
  /\ \E n \in NodeIds : /\ node[n].state = "dropped" /\ node[n].diedIn = ""
                        /\ ~detailsDir[n]

\* What the backends returned for n in the observed run
Queries(n) == {q \in run.queries : q.id = n}

\* C14: a name that list_all_nodes gave and whose monitor says DoesNotExist when
\* its state is queried gets no callback and makes list return no error; the
\* run goes on, so that a run that is not stopped reaches every listed name.
C14_VanishedNodeIsPassedOver ==
  run.by # 0 =>
    /\ \A q \in run.queries :
         q.state = Ok("DoesNotExist") => /\ as_file_name(q.id) \in run.listed
                                         /\ q.id \in run.skipped
                                         /\ Reports(q.id) = {}
                                         /\ run.failed # q.id
    /\ Complete => \A f \in run.listed :
                     Queries(parse_u128(f)) # {}
                     /\ (parse_u128(f) \in run.skipped \/ Reports(parse_u128(f)) # {})
\* A run that passed over a Node removed after the listing, reported another
\* and returned Ok(())
C14_Witness ==
  /\ Complete /\ run.result = "Ok(())"
  /\ \E n, k \in NodeIds : /\ as_file_name(n) \in run.listed
                           /\ Ok("DoesNotExist") \in {q.state : q \in Queries(n)}
                           /\ Reports(k) # {}

\* C15: once the callback has returned Stop the loop is left: list returns
\* Ok(()), no name is left to be taken, and no later step adds a callback or a
\* query to the run.
C15_StopEndsTheRun ==
  [][run.by # 0 /\ run.stopped =>
       /\ run.done /\ run.result = "Ok(())" /\ run.failed = 0
       /\ todo[run.by] = {}
       /\ run'.by = run.by => /\ run'.reports = run.reports
                              /\ run'.queries = run.queries
                              /\ run'.result = run.result]_vars
\* The callback said Stop at the first of two listed Nodes; the other one is
\* still there and was neither queried nor reported
C15_Witness ==
  /\ run.by # 0 /\ run.stopped /\ Len(run.reports) = 1
  /\ \E n \in NodeIds : /\ as_file_name(n) \in run.listed /\ Stable(n) /\ Present(n)
                        /\ Queries(n) = {} /\ Reports(n) = {}

\* C16: a remove_stale_resources call whose cleaner acquisition ends with
\* AlreadyOwnedByAnotherInstance or DoesNotExist (it returns without having
\* held the cleaner) returns Ok(false), and the call removes nothing: storages,
\* directories, monitoring entries and cleaners are as before.
C16_WithoutCleanerNothingIsRemoved ==
  [][\A n \in NodeIds :
       cleaner_outcome(to_string(n)) \in {"AlreadyOwnedByAnotherInstance", "DoesNotExist"}
       /\ Len(rsrLog'[n]) = Len(rsrLog[n]) + 1
       /\ ~rsrLog'[n][Len(rsrLog'[n])].held
       => /\ rsrLog'[n][Len(rsrLog'[n])].res = "Ok(false)"
          /\ storages' = storages /\ detailsDir' = detailsDir
          /\ monitoring' = monitoring /\ cleaner' = cleaner]_vars
\* One call returned Ok(false) while another instance owned the cleaner and the
\* details were still there, and one after the monitoring entry was gone
C16_Witness ==
  /\ \E n \in NodeIds : \E i \in 1..Len(rsrLog[n]) :
       /\ ~rsrLog[n][i].held /\ rsrLog[n][i].after = 0 /\ rsrLog[n][i].res = "Ok(false)"
       /\ cleaner[to_string(n)] # 0 /\ detailsDir[n]
  /\ \E n \in NodeIds : \E i \in 1..Len(rsrLog[n]) :
       /\ ~rsrLog[n][i].held /\ rsrLog[n][i].afterHeld /\ rsrLog[n][i].res = "Ok(false)"

\* create failed at the token step and left the details of n behind
Orphan(n) == node[n].state = "failed" /\ detailsDir[n] /\ "node" \in DOMAIN storages[n]

\* C17: the details a create left behind when it failed at the token step do
\* not stay for ever while peers keep listing and cleaning up what list reports.
\* (Refuted: list enumerates the monitoring entries, the orphan has none, so no
\* peer ever sees its NodeId.)
C17_OrphanIsReclaimed ==
  \A n \in NodeIds : Orphan(n) ~> ~detailsDir[n]

\* C19: a failure to open, read or decode the details of a peer neither fails
\* list nor makes it pass the peer over: the peer is reported with the state its
\* monitor gave and details None, and a run that is not stopped and meets no
\* state error reaches every listed name.
C19_DetailsFailureIsSwallowed ==
  run.by # 0 =>
    /\ \A q \in run.queries :
         ~q.details.ok =>
           /\ q.state \in {Ok("Alive"), Ok("Dead")} =>
                \E i \in Reports(q.id) : /\ run.reports[i].state = q.state.val
                                         /\ run.reports[i].details = None
           /\ q.state \in {Err("InsufficientPermissions"), Err("InternalError")} =>
                \E i \in Reports(q.id) : /\ run.reports[i].state \in {"Inaccessible",
                                                                      "Undefined"}
                                         /\ run.reports[i].details = None
           /\ q.id \in run.skipped => q.state = Ok("DoesNotExist")
           /\ run.failed = q.id => q.state = Err("Interrupt")
    /\ run.done /\ ~run.stopped /\ run.failed = 0 =>
         /\ run.result = "Ok(())"
         /\ \A f \in run.listed : Queries(parse_u128(f)) # {}
\* A run that met a Node whose details could not be read and one whose details
\* could not be decoded, reported both, one of them Dead, and returned Ok(())
C19_Witness ==
  /\ run.by # 0 /\ run.done /\ ~run.stopped /\ run.result = "Ok(())"
  /\ Len(run.reports) = 2
  /\ \E q, r \in run.queries :
       /\ q.details = Err("ReadError") /\ q.state = Ok("Dead")
       /\ r.details = Err("Corrupted") /\ r.id # q.id

\* C20: an Interrupt from monitor() or state() ends list with
\* Err(NodeListFailure::Interrupt) in the iteration it occurs in: no callback is
\* made for that NodeId, the callbacks made before stay as they are, no name is
\* left to be taken, and nothing is queried or reported afterwards.
C20_InterruptIsSurfaced ==
  [][/\ (\E q \in run'.queries \ run.queries : q.state = Err("Interrupt")) =>
          /\ run'.done /\ run'.result = "Err(Interrupt)"
          /\ run'.failed \in {q.id : q \in run'.queries \ run.queries}
          /\ run'.reports = run.reports /\ views' = views
          /\ todo'[run.by] = {} /\ pc'[run.by] = "list_done"
     /\ run.result = "Err(Interrupt)" /\ run'.by = run.by =>
          /\ run'.reports = run.reports /\ run'.queries = run.queries
          /\ run'.result = run.result]_vars
\* list returned Err(Interrupt) at the second Node, after a callback for the first
C20_Witness ==
  /\ run.by # 0 /\ run.done /\ run.result = "Err(Interrupt)"
  /\ Len(run.reports) = 1 /\ run.failed # 0 /\ Reports(run.failed) = {}
  /\ Present(run.failed)

\* The NodeState variant that the outcome of get_node_state stands for
Variant(state) ==
  CASE state = Ok("Alive") -> "Alive"
    [] state = Ok("Dead") -> "Dead"
    [] state = Err("InsufficientPermissions") -> "Inaccessible"
    [] state = Err("InternalError") -> "Undefined"
    [] OTHER -> "none"

\* C21: for a NodeId of another process the outcome of the state query decides
\* what list does: DoesNotExist, no callback; Alive, Dead, InsufficientPermissions,
\* InternalError: one callback with Alive, Dead, Inaccessible, Undefined (the last
\* two without details, so no view of a dead Node); Interrupt: list fails.  After
\* Inaccessible and Undefined the run goes on and returns Ok(()).
C21_Classification ==
  run.by # 0 =>
    /\ \A q \in run.queries :
         pid(q.id) # run.by =>
           /\ q.state = Ok("DoesNotExist") => q.id \in run.skipped /\ Reports(q.id) = {}
           /\ Variant(q.state) # "none" =>
                /\ Reports(q.id) # {} /\ run.failed # q.id
                /\ \A i \in Reports(q.id) : run.reports[i].state = Variant(q.state)
           /\ Variant(q.state) \in {"Inaccessible", "Undefined"} =>
                \A i \in Reports(q.id) : run.reports[i].details = None
           /\ q.state = Err("Interrupt") =>
                /\ Reports(q.id) = {} /\ run.failed = q.id
                /\ run.result = "Err(Interrupt)"
    /\ run.done /\ (\A q \in run.queries : q.state # Err("Interrupt")) =>
         run.result = "Ok(())"
\* A run that reported one Node as Inaccessible and then another as Undefined
\* and returned Ok(())
C21_Witness ==
  /\ run.by # 0 /\ run.done /\ ~run.stopped /\ run.result = "Ok(())"
  /\ Len(run.reports) = 2
  /\ run.reports[1].state = "Inaccessible" /\ run.reports[2].state = "Undefined"
  /\ \A v \in views[run.by] : Reports(v.id) = {}

\* p is inside remove_node for n
Removing(p, n) == pc[p] \in {"rm_list", "rm_files"} /\ cur[p] = n

Cleaning(p, n) == /\ origin[p] = "rsr" /\ cur[p] = n
                  /\ pc[p] \in {"rm_list", "rm_files", "rsr_return"}

\* C23: a process that runs remove_node for remove_stale_resources on a NodeId
\* holds the cleaner of that NodeId at every step, so at most one process is
\* inside the removal of a NodeId; and a process that is not inside
\* remove_stale_resources, however it returned, holds no cleaner.
C23_CleanerScope ==
  /\ \A n \in NodeIds, p \in Procs : Cleaning(p, n) => cleaner[to_string(n)] = p
  /\ \A n \in NodeIds : Cardinality({p \in Procs : Removing(p, n)}) <= 1
  /\ \A p \in Procs : (\A n \in NodeIds : ~Cleaning(p, n)) =>
                        \A f \in FileNames : cleaner[f] # p
\* One process is removing a dead Node while a call of another has returned
\* Ok(false) on it, and a call that held the cleaner has returned an error
C23_Witness ==
  /\ \E n \in NodeIds, p \in Procs :
       /\ Cleaning(p, n) /\ pc[p] = "rm_files"
       /\ \E c \in Calls(n) : ~c.held /\ c.res = "Ok(false)"
  /\ \E n \in NodeIds : /\ cleaner[to_string(n)] = 0
                        /\ \E c \in Calls(n) : c.held /\ c.res \notin {"Ok(true)", "Ok(false)"}

\* C24: or_callback runs without the lock of the table, so two threads may both
\* be past it for one uuid; the add of the one that comes second finds the
\* entry of the first and is fatal: that add_or does not return, and the count
\* is not 2.
C24_SecondAddIsFatal ==
  [][\A t \in Threads :
       /\ rsPc[t] \in {"or_callback", "add"} => rsLock # t
       /\ rsPc[t] = "add" /\ rsPc'[t] # "add" /\ rsData[rsArg[t].uuid] # None =>
            /\ rsFatal'
            /\ rsHist'.adds = rsHist.adds
            /\ rsData'[rsArg[t].uuid][1].count # 2]_vars
\* Two add_or calls, and no other, were begun; or_callback ran twice for one
\* uuid, one add_or returned Ok and the other was fatal
C24_Witness ==
  /\ rsFatal /\ rsHist.ops = 2
  /\ \E u \in UUIDs : rsHist.opens[u] = 2 /\ rsHist.adds[u] = 1

\* C29: add_or for a uuid that is in the table does not run or_callback and
\* counts that entry up by one, leaving its handle and every other entry as they
\* are; add_or whose or_callback returns an error returns it and leaves the
\* table as it is.
C29_AddOrFrame ==
  [][\A t \in Threads :
       /\ rsPc[t] = "add_or_locked" /\ rsPc'[t] # "add_or_locked"
          /\ rsData[rsArg[t].uuid] # None =>
            /\ rsPc'[t] = "idle" /\ rsHist'.opens = rsHist.opens
            /\ rsData'[rsArg[t].uuid] # None
            /\ rsData'[rsArg[t].uuid][1].count = rsData[rsArg[t].uuid][1].count + 1
            /\ rsData'[rsArg[t].uuid][1].handle = rsData[rsArg[t].uuid][1].handle
            /\ \A u \in UUIDs \ {rsArg[t].uuid} : rsData'[u] = rsData[u]
            /\ rsHist'.adds[rsArg[t].uuid] = rsHist.adds[rsArg[t].uuid] + 1
       /\ rsPc[t] = "or_callback" =>
            /\ rsPc'[t] = "idle" => /\ rsData' = rsData /\ rsHist'.adds = rsHist.adds
                                    /\ ~rsFatal']_vars
\* An add_or was the only call on one uuid, ran or_callback and returned
\* without an entry; an add_or on another uuid, added before, made its count 2
\* without or_callback
C29_Witness ==
  /\ ~rsFatal /\ \A t \in Threads : rsPc[t] = "idle"
  /\ \E u, v \in UUIDs :
       /\ rsHist.opens[u] = 1 /\ rsHist.adds[u] = 0 /\ rsData[u] = None
       /\ rsHist.opens[v] = 0 /\ rsData[v] # None /\ rsData[v][1].count = 2

\* C25: create mints the id, creates the details, then asks for the token.  A
\* monitoring entry is made only for a NodeId whose details are there; a NodeId
\* whose details were not created never has an entry, and a Node that was
\* returned has its token in the slot, its entry and its details.
C25_CreateOrder ==
  [][\A n \in NodeIds :
       /\ ~Present(n) /\ Present(n)' =>
            /\ node[n].state = "building" /\ node'[n].state = "alive"
            /\ detailsDir[n] /\ "node" \in DOMAIN storages[n]
       /\ node[n].state = "unbuilt" =>
            ~Present(n) /\ ~detailsDir[n] /\ DOMAIN storages[n] = {}
       /\ node[n].state = "failed" => ~Present(n) /\ ~node[n].token
       /\ node[n].state = "alive" =>
            /\ node[n].token /\ monitoring[as_file_name(n)] = "held"
            /\ detailsDir[n] /\ "node" \in DOMAIN storages[n]]_vars
\* One create failed at the details and left nothing, another returned a Node
C25_Witness ==
  \E n, k \in NodeIds :
    /\ node[n].state = "unbuilt" /\ ~Present(n) /\ ~detailsDir[n]
    /\ node[k].state = "alive" /\ node[k].token /\ Present(k)

\* n is a Node whose owner lives and holds its token
Live(n) == node[n].state = "alive" /\ node[n].token /\ alive[pid(n)]

\* C26: a live Node is never reaped: it keeps its monitoring entry, its details
\* directory and its details artifact; no process holds a view of it as dead or
\* its cleaner, no remove_stale_resources call on it has begun, and the observed
\* list run reports it as Alive only.
C26_LiveNodeIsNotReaped ==
  \A n \in NodeIds :
    Live(n) =>
      /\ monitoring[as_file_name(n)] = "held"
      /\ detailsDir[n] /\ "node" \in DOMAIN storages[n]
      /\ cleaner[to_string(n)] = 0 /\ ~node[n].reaped /\ rsrLog[n] = <<>>
      /\ \A p \in Procs : /\ \A v \in views[p] : v.id # n
                          /\ ~Cleaning(p, n)
      /\ \A i \in Reports(n) : run.reports[i].state = "Alive"
\* A peer's complete run reported a live Node as Alive and a dead one as Dead,
\* and the dead one was cleaned up with Ok(true)
C26_Witness ==
  /\ Complete
  /\ \E n, k \in NodeIds :
       /\ Live(n) /\ pid(n) # run.by /\ Reports(n) # {}
       /\ \E i \in Reports(k) : run.reports[i].state = "Dead"
       /\ \E c \in Calls(k) : c.res = "Ok(true)"

\* The drop of n has begun, whether it ended, or its owner was killed in it
TornDown(n) == \/ node[n].state \in {"teardown", "dropped"}
               \/ node[n].state = "crashed" /\ node[n].diedIn = "teardown"

\* C27 as stated: every Alive that list delivers for a Node of another process
\* carries details.  (Refuted: the drop removes the details artifact while the
\* token is still held, and a list in between gets Alive without details.)
C27_AliveHasDetails ==
  run.by # 0 =>
    \A i \in 1..Len(run.reports) :
      run.reports[i].state = "Alive" /\ pid(run.reports[i].id) # run.by
      => run.reports[i].details # None
\* C27 amended: an Alive that list delivers for a Node of another process
\* carries the details its owner wrote, unless the drop of that Node has begun.
C27_AliveHasDetailsUntilDrop ==
  run.by # 0 =>
    \A i \in 1..Len(run.reports) :
      run.reports[i].state = "Alive" /\ pid(run.reports[i].id) # run.by
      => \/ run.reports[i].details = Some(NodeDetails(node[run.reports[i].id].name,
                                                      GlobalConfig))
         \/ run.reports[i].details = None /\ TornDown(run.reports[i].id)
\* One run reported a Node Alive with its details and a Node in teardown Alive
\* without
C27_Witness ==
  /\ run.by # 0
  /\ \E i, j \in 1..Len(run.reports) :
       /\ run.reports[i].state = "Alive" /\ pid(run.reports[i].id) # run.by
       /\ run.reports[i].details # None
       /\ run.reports[j].state = "Alive" /\ pid(run.reports[j].id) # run.by
       /\ run.reports[j].details = None
       /\ node[run.reports[j].id].state = "teardown"

\* The NodeId whose drop or remove_stale_resources p is in, 0 if in none
CleanupOf(p) ==
  IF pc[p] \in {"rm_list", "rm_files", "drop_fields", "rsr_return"} THEN cur[p] ELSE 0

\* C28: a step that a process takes in the drop of a Node or in
\* remove_stale_resources on a NodeId leaves the details artifacts, the details
\* directory, the monitoring entry and the cleaner of every other NodeId as they
\* are.
C28_CleanupFrame ==
  [][\A p \in Procs :
       /\ alive'[p]
       /\ <<pc[p], pending[p]>> # <<pc'[p], pending'[p]>>
       /\ CleanupOf(p) # 0 \/ CleanupOf(p)' # 0
       => \A y \in NodeIds :
            y \notin {CleanupOf(p), CleanupOf(p)'} =>
              /\ storages'[y] = storages[y] /\ detailsDir'[y] = detailsDir[y]
              /\ monitoring'[as_file_name(y)] = monitoring[as_file_name(y)]
              /\ cleaner'[to_string(y)] = cleaner[to_string(y)]]_vars
\* One Node was cleaned up with Ok(true) or dropped, and is gone; the other is
\* there with its entry, its directory and both its artifacts
C28_Witness ==
  \E x, y \in NodeIds :
    /\ x # y
    /\ ~detailsDir[x] /\ ~Present(x)
    /\ (\E c \in Calls(x) : c.res = "Ok(true)") \/ node[x].state = "dropped"
    /\ node[y].state \in {"alive", "crashed"} /\ Present(y) /\ detailsDir[y]
    /\ DOMAIN storages[y] = {"node", "service"}
====
